---------------------------- MODULE Spec2Model ----------------------------
(***************************************************************************)
(* larsim  IonizationScintillation/ISCalcCorrelated.cxx                    *)
(*                                                                         *)
(* The calculator of ionization electrons and scintillation photons for    *)
(* one energy deposit.  The C++ computes in IEEE-754 doubles; here a       *)
(* double is a binary floating-point number with a MantBits-bit mantissa   *)
(* and an unbounded exponent, with signed zeros, infinities and NaN, and   *)
(* every operation rounds to nearest (ties to even) as the hardware does.  *)
(* The operations are functions on Float, so that each is applied to the   *)
(* values of its operands.                                                 *)
(***************************************************************************)
EXTENDS Integers, FiniteSets, Sequences, TLC

(***************************************************************************)
(* Floating point.                                                         *)
(*   [k |-> "fin", s |-> sign, m |-> mantissa, e |-> exponent]  is the     *)
(*   value s * m * 2^e, with 2^(MantBits-1) <= m < 2^MantBits, or m = 0    *)
(*   and e = 0 for a (signed) zero;  k = "inf" is s * infinity;  k = "nan" *)
(*   is NaN.                                                               *)
(***************************************************************************)
MantBits == 10

MantLo == 2^(MantBits - 1)

MantHi == 2^MantBits

Zero(s) == [k |-> "fin", s |-> s, m |-> 0, e |-> 0]

Inf(s) == [k |-> "inf", s |-> s, m |-> 0, e |-> 0]

NaN == [k |-> "nan", s |-> 1, m |-> 0, e |-> 0]

Float == [k : {"fin", "inf", "nan"}, s : {-1, 1}, m : Nat, e : Int]

IsNaN(a) == a.k = "nan"

IsInf(a) == a.k = "inf"

IsFin(a) == a.k = "fin"

IsZero(a) == a.k = "fin" /\ a.m = 0

\* The number of bits of n, 0 <= n < 2^31
BitLen2(n) == IF n >= 2 THEN 2 ELSE n

BitLen4(n) == IF n >= 4 THEN 2 + BitLen2(n \div 4) ELSE BitLen2(n)

BitLen8(n) == IF n >= 16 THEN 4 + BitLen4(n \div 16) ELSE BitLen4(n)

BitLen16(n) == IF n >= 256 THEN 8 + BitLen8(n \div 256) ELSE BitLen8(n)

BitLen(n) == IF n >= 65536 THEN 16 + BitLen16(n \div 65536) ELSE BitLen16(n)

\* Round the exact value s * M * 2^E (M a natural number) to MantBits bits,
\* to nearest, ties to even.
Round(s, M, E) ==
  IF M = 0 THEN Zero(s)
  ELSE LET L == BitLen(M) IN
       IF L <= MantBits
       THEN [k |-> "fin", s |-> s, m |-> M * 2^(MantBits - L), e |-> E - (MantBits - L)]
       ELSE LET r    == L - MantBits
                q    == M \div 2^r
                rem  == M % 2^r
                half == 2^(r - 1)
                up   == rem > half \/ (rem = half /\ q % 2 = 1)
                q1   == IF up THEN q + 1 ELSE q
            IN IF q1 = MantHi
               THEN [k |-> "fin", s |-> s, m |-> MantLo, e |-> E + r + 1]
               ELSE [k |-> "fin", s |-> s, m |-> q1, e |-> E + r]

\* An integer literal.
FromInt(i) == IF i < 0 THEN Round(-1, -i, 0) ELSE Round(1, i, 0)

FNegOf[a \in Float] == IF IsNaN(a) THEN NaN ELSE [a EXCEPT !.s = -a.s]

FNeg(a) == FNegOf[a]

\* a + b for finite a, b with a.e >= b.e, both nonzero
AddAligned(a, b) ==
  LET diff == a.e - b.e IN
  IF diff > MantBits + 2 THEN a
  ELSE LET sum == a.s * a.m * 2^diff + b.s * b.m IN
       IF sum = 0 THEN Zero(1)
       ELSE IF sum < 0 THEN Round(-1, -sum, b.e) ELSE Round(1, sum, b.e)

FAddOf[a \in Float, b \in Float] ==
  IF IsNaN(a) \/ IsNaN(b) THEN NaN
  ELSE IF IsInf(a) THEN (IF IsInf(b) /\ b.s # a.s THEN NaN ELSE a)
  ELSE IF IsInf(b) THEN b
  ELSE IF a.m = 0 THEN (IF b.m = 0 THEN (IF a.s = b.s THEN a ELSE Zero(1)) ELSE b)
  ELSE IF b.m = 0 THEN a
  ELSE IF a.e >= b.e THEN AddAligned(a, b) ELSE AddAligned(b, a)

FAdd(a, b) == FAddOf[a, b]

FSub(a, b) == FAdd(a, FNeg(b))

FMulOf[a \in Float, b \in Float] ==
  IF IsNaN(a) \/ IsNaN(b) THEN NaN
  ELSE IF IsInf(a) \/ IsInf(b)
       THEN (IF IsZero(a) \/ IsZero(b) THEN NaN ELSE Inf(a.s * b.s))
  ELSE Round(a.s * b.s, a.m * b.m, a.e + b.e)

FMul(a, b) == FMulOf[a, b]

FDivOf[a \in Float, b \in Float] ==
  IF IsNaN(a) \/ IsNaN(b) THEN NaN
  ELSE IF IsInf(a) THEN (IF IsInf(b) THEN NaN ELSE Inf(a.s * b.s))
  ELSE IF IsInf(b) THEN Zero(a.s * b.s)
  ELSE IF b.m = 0 THEN (IF a.m = 0 THEN NaN ELSE Inf(a.s * b.s))
  ELSE IF a.m = 0 THEN Zero(a.s * b.s)
  ELSE LET num == a.m * 2^(MantBits + 2)
           q   == num \div b.m
           st  == IF num % b.m = 0 THEN 0 ELSE 1   \* sticky bit
       IN Round(a.s * b.s, 2 * q + st, a.e - b.e - MantBits - 3)

FDiv(a, b) == FDivOf[a, b]

\* a < b on finite or infinite values
LtOrd[a \in Float, b \in Float] ==
  LET rank(x) == IF IsInf(x) THEN 2 * x.s ELSE IF x.m = 0 THEN 0 ELSE x.s IN
  IF rank(a) # rank(b) THEN rank(a) < rank(b)
  ELSE IF IsInf(a) \/ a.m = 0 THEN FALSE
  ELSE IF a.s = 1 THEN a.e < b.e \/ (a.e = b.e /\ a.m < b.m)
  ELSE a.e > b.e \/ (a.e = b.e /\ a.m > b.m)

\* The C++ comparisons: every comparison with NaN is false; -0 == +0.
FLtOf[a \in Float, b \in Float] == ~IsNaN(a) /\ ~IsNaN(b) /\ LtOrd[a, b]

FLt(a, b) == FLtOf[a, b]

FGt(a, b) == FLt(b, a)

FEqOf[a \in Float, b \in Float] ==
  ~IsNaN(a) /\ ~IsNaN(b) /\ ~LtOrd[a, b] /\ ~LtOrd[b, a]

FEq(a, b) == FEqOf[a, b]

FLeOf[a \in Float, b \in Float] == FLtOf[a, b] \/ FEqOf[a, b]

FLe(a, b) == FLeOf[a, b]

\* The decimal literal n/d
Lit(n, d) == FDiv(FromInt(n), FromInt(d))

One == FromInt(1)

(***************************************************************************)
(* The libm functions.  Each works on a fixed-point copy of its argument   *)
(* (FixBits fractional bits), by range reduction and a power series, and   *)
(* rounds the result; the IEEE special cases are those of log, exp and     *)
(* hypot: log(1) = +0, log(0) = -inf, log(x < 0) = NaN, exp(0) = 1,        *)
(* exp(-inf) = +0, hypot(inf, y, z) = +inf.                                *)
(***************************************************************************)
FixBits == 12

FixOne == 2^FixBits

\* ln 2 in fixed point
FixLn2 == (6931 * FixOne) \div 10000

\* log(double)
FLogOf[a \in Float] ==
  IF IsNaN(a) THEN NaN
  ELSE IF IsZero(a) THEN Inf(-1)
  ELSE IF a.s = -1 THEN NaN
  ELSE IF IsInf(a) THEN Inf(1)
  ELSE LET x   == a.m * 2^(FixBits - (MantBits - 1))     \* in [1, 2)
           y   == ((x - FixOne) * FixOne) \div (x + FixOne)
           y2  == (y * y) \div FixOne
           t3  == (y * y2) \div FixOne
           t5  == (t3 * y2) \div FixOne
           t7  == (t5 * y2) \div FixOne
           frc == 2 * (y + (t3 \div 3) + (t5 \div 5) + (t7 \div 7))
           tot == frc + (a.e + MantBits - 1) * FixLn2
       IN IF tot < 0 THEN Round(-1, -tot, -FixBits) ELSE Round(1, tot, -FixBits)

FLog(a) == FLogOf[a]

\* exp(double); beyond |x| >= 2^10 the result overflows or underflows
FExpOf[a \in Float] ==
  IF IsNaN(a) THEN NaN
  ELSE IF IsInf(a) THEN (IF a.s = 1 THEN Inf(1) ELSE Zero(1))
  ELSE IF a.m = 0 THEN One
  ELSE IF a.e + MantBits > 10 THEN (IF a.s = 1 THEN Inf(1) ELSE Zero(1))
  ELSE LET sh  == a.e + FixBits
           mag == IF sh >= 0 THEN a.m * 2^sh ELSE a.m \div 2^(-sh)
           x   == a.s * mag
           kk  == x \div FixLn2
           r   == x - kk * FixLn2                         \* in [0, ln 2)
           t2  == (r * r) \div (2 * FixOne)
           t3  == (t2 * r) \div (3 * FixOne)
           t4  == (t3 * r) \div (4 * FixOne)
           t5  == (t4 * r) \div (5 * FixOne)
           t6  == (t5 * r) \div (6 * FixOne)
       IN Round(1, FixOne + r + t2 + t3 + t4 + t5 + t6, kk - FixBits)

FExp(a) == FExpOf[a]

\* The integer square root: Bump(s, n) is s or s + 1.
Bump[s \in Nat, n \in Nat] == IF (s + 1) * (s + 1) <= n THEN s + 1 ELSE s

RECURSIVE ISqrt(_)
ISqrt(n) == IF n < 2 THEN n ELSE Bump[2 * ISqrt(n \div 4), n]

\* sqrt of a finite value >= 0
FSqrt[a \in Float] ==
  IF a.m = 0 THEN a
  ELSE LET t  == IF (a.e - 18) % 2 = 0 THEN 18 ELSE 19
           M  == a.m * 2^t
           r  == ISqrt(M)
           st == IF r * r = M THEN 0 ELSE 1
       IN Round(1, 2 * r + st, ((a.e - t) \div 2) - 1)

\* std::hypot(x, y, z)
FHypotOf[x \in Float, y \in Float, z \in Float] ==
  IF IsInf(x) \/ IsInf(y) \/ IsInf(z) THEN Inf(1)
  ELSE IF IsNaN(x) \/ IsNaN(y) \/ IsNaN(z) THEN NaN
  ELSE FSqrt[FAdd(FAdd(FMul(x, x), FMul(y, y)), FMul(z, z))]

FHypot(x, y, z) == FHypotOf[x, y, z]

\* float(double): the narrowing of line 63, to a mantissa of FloatBits bits
FloatBits == MantBits - 3

ToFloatOf[a \in Float] ==
  IF ~IsFin(a) \/ a.m = 0 THEN a
  ELSE LET r    == MantBits - FloatBits
           q    == a.m \div 2^r
           rem  == a.m % 2^r
           half == 2^(r - 1)
           q1   == IF rem > half \/ (rem = half /\ q % 2 = 1) THEN q + 1 ELSE q
       IN Round(a.s, q1, a.e + r)

ToFloat(a) == ToFloatOf[a]

(***************************************************************************)
(* The collaborators: what the services answer.                            *)
(***************************************************************************)
VARIABLES
  params,    \* sim::LArG4Parameters, as read by the constructor
  density,   \* detProp.Density(detProp.Temperature()) at construction
  larprop,   \* detinfo::LArProperties behind fLArProp
  sce,       \* spacecharge::SpaceCharge behind fSCE
  calc,      \* the data members of the ISCalcCorrelated object
  call,      \* the last CalcIonAndScint call: arguments, locals, result
  hist,      \* the calls made so far: arguments and result of each
  pc,        \* per thread: its place in CalcIonAndScint
  args,      \* per thread: the arguments it called with
  frame,     \* per stack frame: the automatic variables of CalcIonAndScint
  ret        \* per thread: the ISCalcData it got back

vars == <<params, density, larprop, sce, calc, call, hist, pc, args, frame, ret>>

\* sim::LArG4Parameters: the fitted constants and the model flags
ParamSpace(kset, gset, boxset, larqlset) ==
  [ RecombA           : {Lit(4, 5)},
    Recombk           : kset,
    ModBoxA           : {Lit(93, 100)},
    ModBoxB           : {Lit(1, 5)},
    UseModBoxRecomb   : boxset,
    UseModLarqlRecomb : larqlset,
    LarqlChi0A        : {Lit(1, 4)},
    LarqlChi0B        : {One},
    LarqlChi0C        : {Zero(1)},
    LarqlChi0D        : {Lit(1, 8)},
    LarqlAlpha        : {Lit(1, 2)},
    LarqlBeta         : {Lit(1, 2)},
    GeVToElectrons    : gset ]

\* detinfo::LArProperties: the pre-scale, the per-particle toggle, the ratios
LArPropSpace ==
  [ ScintPreScale           : {Lit(1, 2)},
    ScintByParticleType     : BOOLEAN,
    ScintYieldRatio         : {Lit(3, 10)},
    ProtonScintYieldRatio   : {Lit(29, 100)},
    MuonScintYieldRatio     : {Lit(23, 100)},
    PionScintYieldRatio     : {Lit(24, 100)},
    KaonScintYieldRatio     : {Lit(25, 100)},
    AlphaScintYieldRatio    : {Lit(56, 100)},
    ElectronScintYieldRatio : {Lit(27, 100)} ]

\* The mid points deposits lie at, and the field offsets the space-charge
\* service reports there.
MidPoints == {"P0", "P1", "P2"}

GetEfieldOffsets(point) ==
  CASE point = "P0" -> [X |-> Zero(1), Y |-> Zero(1), Z |-> Zero(1)]
    [] point = "P1" -> [X |-> Zero(1), Y |-> Lit(3, 4), Z |-> Zero(1)]
    [] point = "P2" -> [X |-> Lit(-1, 4), Y |-> Zero(1), Z |-> Lit(1, 2)]

\* sim::SimEnergyDeposit: Energy() in MeV (the deposit stores its energy in
\* single precision), StepLength() in cm (a double: 129/128 and 255/256 are
\* no single-precision values, and line 63 narrows both to 1), MidPoint(),
\* PdgCode()
Energies == {Zero(1), Lit(1, 2), One, FromInt(2), FromInt(5)}

StepLengths ==
  {FromInt(-1), Zero(1), Lit(1, 2), Lit(255, 256), One, Lit(129, 128), FromInt(4)}

PdgCodes ==
  {2212, 13, -13, 211, -211, 321, -321, 1000020040, 11, -11, 22, 999999, -2212, 0}

Deposits ==
  [Energy : Energies, StepLength : StepLengths, MidPoint : MidPoints,
   PdgCode : {2212}]
  \cup
  [Energy : {Zero(1), FromInt(2)}, StepLength : {Zero(1), One},
   MidPoint : {"P0"}, PdgCode : PdgCodes]

\* detProp.Efield(): the ambient field, kV/cm
Efields == {Zero(1), Lit(1, 2), One}

(***************************************************************************)
(* ISCalcCorrelated                                                        *)
(***************************************************************************)
\* The constructor: the members it stores.
Construct(p, dens, lp) ==
  [ fScintPreScale     |-> lp.ScintPreScale,
    fRecombA           |-> p.RecombA,
    fRecombk           |-> FDiv(p.Recombk, dens),
    fModBoxA           |-> p.ModBoxA,
    fModBoxB           |-> FDiv(p.ModBoxB, dens),
    fUseModBoxRecomb   |-> p.UseModBoxRecomb,
    fUseModLarqlRecomb |-> p.UseModLarqlRecomb,
    fLarqlChi0A        |-> p.LarqlChi0A,
    fLarqlChi0B        |-> p.LarqlChi0B,
    fLarqlChi0C        |-> p.LarqlChi0C,
    fLarqlChi0D        |-> p.LarqlChi0D,
    fLarqlAlpha        |-> p.LarqlAlpha,
    fLarqlBeta         |-> p.LarqlBeta,
    fGeVToElectrons    |-> p.GeVToElectrons,
    fWion              |-> FMul(FDiv(One, p.GeVToElectrons), FromInt(1000)),
    fWph               |-> FMul(Lit(39, 2), Lit(1, 1000000)) ]

\* A table whose default is the global ratio.
GetScintYieldRatioGlobalDefault(lp, edep) ==
  IF ~lp.ScintByParticleType THEN lp.ScintYieldRatio
  ELSE CASE edep.PdgCode = 2212 -> lp.ProtonScintYieldRatio
         [] edep.PdgCode \in {13, -13} -> lp.MuonScintYieldRatio
         [] edep.PdgCode \in {211, -211} -> lp.PionScintYieldRatio
         [] edep.PdgCode \in {321, -321} -> lp.KaonScintYieldRatio
         [] edep.PdgCode = 1000020040 -> lp.AlphaScintYieldRatio
         [] edep.PdgCode \in {11, -11, 22} -> lp.ElectronScintYieldRatio
         [] OTHER -> lp.ScintYieldRatio

\* GetScintYieldRatio
GetScintYieldRatio(lp, edep) ==
  IF ~lp.ScintByParticleType THEN lp.ScintYieldRatio
  ELSE CASE edep.PdgCode = 2212 -> lp.ProtonScintYieldRatio
         [] edep.PdgCode \in {13, -13} -> lp.MuonScintYieldRatio
         [] edep.PdgCode \in {211, -211} -> lp.PionScintYieldRatio
         [] edep.PdgCode \in {321, -321} -> lp.KaonScintYieldRatio
         [] edep.PdgCode = 1000020040 -> lp.AlphaScintYieldRatio
         [] edep.PdgCode \in {11, -11, 22} -> lp.ElectronScintYieldRatio
         [] OTHER -> lp.ElectronScintYieldRatio

\* The norm of the offsets alone, without the unit along the field.
EFieldAtStepOffsetsOnly(sc, efield, edep) ==
  IF ~sc.EnableSimEfieldSCE THEN efield
  ELSE LET eFieldOffsets == GetEfieldOffsets(edep.MidPoint)
       IN FMul(efield, FHypot(eFieldOffsets.X, eFieldOffsets.Y, eFieldOffsets.Z))

\* EFieldAtStep
EFieldAtStep(sc, efield, edep) ==
  IF ~sc.EnableSimEfieldSCE THEN efield
  ELSE LET eFieldOffsets == GetEfieldOffsets(edep.MidPoint)
       IN FMul(efield, FHypot(FAdd(One, eFieldOffsets.X), eFieldOffsets.Y, eFieldOffsets.Z))

\* The points EFieldAtStep asks the space-charge service about.
EFieldLookups(sc, edep) ==
  IF ~sc.EnableSimEfieldSCE THEN {} ELSE {edep.MidPoint}

\* EscapingEFraction
EscapingEFraction(c, dEdx) ==
  FDiv(c.fLarqlChi0A,
       FAdd(c.fLarqlChi0B, FExp(FAdd(c.fLarqlChi0C, FMul(c.fLarqlChi0D, dEdx)))))

\* FieldCorrection
FieldCorrection(c, EF, dEdx) ==
  FExp(FDiv(FNeg(EF), FAdd(FMul(c.fLarqlAlpha, FLog(dEdx)), c.fLarqlBeta)))

\* dE/dx with no guard on the step length.
DEdxOfUnguarded(energy_deposit, ds) == FDiv(energy_deposit, ds)

\* line 64: dE/dx before the guard
DEdxOf(energy_deposit, ds) ==
  IF FLe(ds, Zero(1)) THEN Zero(1) ELSE FDiv(energy_deposit, ds)

\* No guard on dE/dx.
ClampDEdxNone(dEdx) == dEdx

\* line 69: the guard against spurious values of dE/dx
ClampDEdx(dEdx) == IF FLt(dEdx, One) THEN One ELSE dEdx

\* A Modified-Box branch without the zero-step short cut.
RecombinationNoZeroStep(c, ds, dEdx, EFieldStep) ==
  IF c.fUseModBoxRecomb
  THEN LET Xi == FDiv(FMul(c.fModBoxB, dEdx), EFieldStep)
       IN FDiv(FLog(FAdd(c.fModBoxA, Xi)), Xi)
  ELSE FDiv(c.fRecombA, FAdd(One, FDiv(FMul(dEdx, c.fRecombk), EFieldStep)))

\* A Birks branch that leaves the field term out when the field is 0.
RecombinationFieldGuard(c, ds, dEdx, EFieldStep) ==
  IF c.fUseModBoxRecomb
  THEN IF FGt(ds, Zero(1))
       THEN LET Xi == FDiv(FMul(c.fModBoxB, dEdx), EFieldStep)
            IN FDiv(FLog(FAdd(c.fModBoxA, Xi)), Xi)
       ELSE Zero(1)
  ELSE IF IsZero(EFieldStep) THEN c.fRecombA
  ELSE FDiv(c.fRecombA, FAdd(One, FDiv(FMul(dEdx, c.fRecombk), EFieldStep)))

\* lines 72-83: the recombination survival fraction of the selected model
Recombination(c, ds, dEdx, EFieldStep) ==
  IF c.fUseModBoxRecomb
  THEN IF FGt(ds, Zero(1))
       THEN LET Xi == FDiv(FMul(c.fModBoxB, dEdx), EFieldStep)
            IN FDiv(FLog(FAdd(c.fModBoxA, Xi)), Xi)
       ELSE Zero(1)
  ELSE FDiv(c.fRecombA, FAdd(One, FDiv(FMul(dEdx, c.fRecombk), EFieldStep)))

\* A correction that scales instead of adding.
LarqlCorrectScaled(c, recomb, EFieldStep, dEdx) ==
  IF c.fUseModLarqlRecomb
  THEN FMul(recomb, FMul(EscapingEFraction(c, dEdx), FieldCorrection(c, EFieldStep, dEdx)))
  ELSE recomb

\* lines 85-87: the LArQL correction for low fields
LarqlCorrect(c, recomb, EFieldStep, dEdx) ==
  IF c.fUseModLarqlRecomb
  THEN FAdd(recomb, FMul(EscapingEFraction(c, dEdx), FieldCorrection(c, EFieldStep, dEdx)))
  ELSE recomb

\* line 61
TotalQuanta(c, energy_deposit) == FDiv(energy_deposit, c.fWph)

\* line 90
NumElectrons(c, energy_deposit, recomb) == FMul(FDiv(energy_deposit, c.fWion), recomb)

\* Photons raised to 0.
NumPhotonsClamped(c, Nq, num_electrons) ==
  IF FLt(Nq, num_electrons) THEN Zero(1)
  ELSE FMul(FSub(Nq, num_electrons), c.fScintPreScale)

\* line 93
NumPhotons(c, Nq, num_electrons) == FMul(FSub(Nq, num_electrons), c.fScintPreScale)

\* A call that normalises Recombk by the density again.
MembersAfterRenormalised(c, edep) ==
  [c EXCEPT !.fRecombk = FDiv(c.fRecombk, Lit(7, 5)),
            !.fModBoxB = FDiv(c.fModBoxB, Lit(7, 5))]

\* The data members after a call: CalcIonAndScint and its helpers assign none.
MembersAfter(c, edep) == c

\* The automatic variables of CalcIonAndScint, before any is initialised.
NoFrame ==
  [ energy_deposit |-> Zero(1), Nq |-> Zero(1), ds |-> Zero(1), dEdx |-> Zero(1),
    EFieldStep |-> Zero(1), recomb |-> Zero(1), num_electrons |-> Zero(1),
    num_photons |-> Zero(1) ]

\* CalcIonAndScint, statement by statement, on its automatic variables f.
S61(c, f, edep) ==
  [f EXCEPT !.energy_deposit = edep.Energy, !.Nq = TotalQuanta(c, edep.Energy)]

S64(f, edep) ==
  LET ds == ToFloat(edep.StepLength)
  IN [f EXCEPT !.ds = ds, !.dEdx = DEdxOf(f.energy_deposit, ds)]

S66(sc, f, efield, edep) ==
  [f EXCEPT !.EFieldStep = EFieldAtStep(sc, efield, edep), !.recomb = Zero(1)]

S69(f) == [f EXCEPT !.dEdx = ClampDEdx(f.dEdx)]

S83(c, f) == [f EXCEPT !.recomb = Recombination(c, f.ds, f.dEdx, f.EFieldStep)]

S87(c, f) == [f EXCEPT !.recomb = LarqlCorrect(c, f.recomb, f.EFieldStep, f.dEdx)]

S90(c, f) == [f EXCEPT !.num_electrons = NumElectrons(c, f.energy_deposit, f.recomb)]

S93(c, f) == [f EXCEPT !.num_photons = NumPhotons(c, f.Nq, f.num_electrons)]

\* line 100: the ISCalcData returned
S100(lp, f, edep) ==
  [ energy                |-> f.energy_deposit,
    numElectrons          |-> f.num_electrons,
    numPhotons            |-> f.num_photons,
    scintillationYieldRatio |-> GetScintYieldRatio(lp, edep) ]

\* The n-th statement of CalcIonAndScint.
Statement(n, c, sc, f, efield, edep) ==
  CASE n = 1 -> S61(c, f, edep)
    [] n = 2 -> S64(f, edep)
    [] n = 3 -> S66(sc, f, efield, edep)
    [] n = 4 -> S69(f)
    [] n = 5 -> S83(c, f)
    [] n = 6 -> S87(c, f)
    [] n = 7 -> S90(c, f)
    [] n = 8 -> S93(c, f)

TheOnly(S) == CHOOSE x \in S : TRUE

\* The automatic variables as they stand after each of the first n
\* statements: Exec(n, ...)[i + 1] is the frame after statement i.
RECURSIVE Exec(_, _, _, _, _)
Exec(n, c, sc, efield, edep) ==
  IF n = 0 THEN <<NoFrame>>
  ELSE TheOnly({Append(fs, Statement(n, c, sc, fs[n], efield, edep)) :
                  fs \in {Exec(n - 1, c, sc, efield, edep)}})

\* One whole call: the arguments, the locals as they stood along the way
\* (dEdx0: line 64; dEdx: line 69; recomb0: line 83; recomb: line 87), the
\* offset lookups made, and the result.
Trace(c, lp, sc, efield, edep) ==
  TheOnly({ [ op         |-> "CalcIonAndScint",
              efield     |-> efield,
              edep       |-> edep,
              Nq         |-> fs[9].Nq,
              ds         |-> fs[9].ds,
              dEdx0      |-> fs[3].dEdx,
              dEdx       |-> fs[9].dEdx,
              EFieldStep |-> fs[9].EFieldStep,
              lookups    |-> EFieldLookups(sc, edep),
              recomb0    |-> fs[6].recomb,
              recomb     |-> fs[9].recomb,
              result     |-> S100(lp, fs[9], edep) ] :
            fs \in {Exec(8, c, sc, efield, edep)} })

CalcIonAndScint(c, lp, sc, efield, edep) == Trace(c, lp, sc, efield, edep).result

(***************************************************************************)
(* The calculator in use: one call on a fresh calculator (Spec), calls one *)
(* after another (SpecCalls), and threads calling at once (SpecThreads).   *)
(***************************************************************************)
MaxCalls == 3

NumThreads == 2

Threads == 1..NumThreads

\* Every call runs in one shared frame.
ScratchShared(t) == 1

\* The stack frame thread t's call runs in: its own.
Scratch(t) == t

Params ==
  ParamSpace({Zero(1), Lit(1, 20)}, {FromInt(40000000), FromInt(100000000)},
             BOOLEAN, BOOLEAN)

InitWith(pset, lpset, sceset) ==
  /\ params \in pset
  /\ density = Lit(7, 5)
  /\ larprop \in lpset
  /\ sce \in sceset
  /\ calc = Construct(params, density, larprop)
  /\ call = [op |-> "none"]
  /\ hist = <<>>
  /\ pc = [t \in Threads |-> "idle"]
  /\ args = [t \in Threads |-> [efield |-> Zero(1), edep |-> "none"]]
  /\ frame = [t \in Threads |-> NoFrame]
  /\ ret = [t \in Threads |-> "none"]

\* A call of CalcIonAndScint, from entry to return.
CallWith(efield, edep) ==
  /\ call' = Trace(calc, larprop, sce, efield, edep)
  /\ calc' = MembersAfter(calc, edep)
  /\ hist' = Append(hist, [efield |-> efield, edep |-> edep, result |-> call'.result])
  /\ UNCHANGED <<params, density, larprop, sce, pc, args, frame, ret>>

\* Spec: the first call on a calculator, with any deposit and field.
Init == InitWith(Params, LArPropSpace, [EnableSimEfieldSCE : BOOLEAN])

CalcIonAndScintFirst ==
  /\ hist = <<>>
  /\ \E edep \in Deposits, efield \in Efields : CallWith(efield, edep)

Next == CalcIonAndScintFirst

Spec == Init /\ [][Next]_vars

\* SpecCalls: up to MaxCalls calls, one after another.
SeqDeposits ==
  [Energy : {FromInt(2), FromInt(5)}, StepLength : {Zero(1), One},
   MidPoint : {"P1"}, PdgCode : {2212}]

SeqEfields == {Lit(1, 2)}

SeqParams == ParamSpace({Lit(1, 20)}, {FromInt(100000000)}, BOOLEAN, BOOLEAN)

InitCalls ==
  InitWith(SeqParams,
           {lp \in LArPropSpace : lp.ScintByParticleType},
           {[EnableSimEfieldSCE |-> TRUE]})

CalcIonAndScintCall ==
  /\ Len(hist) < MaxCalls
  /\ \E edep \in SeqDeposits, efield \in SeqEfields : CallWith(efield, edep)

NextCalls == CalcIonAndScintCall

SpecCalls == InitCalls /\ [][NextCalls]_vars

\* SpecThreads: each thread makes one call, a statement at a time.
Advance(t, to, f) ==
  /\ pc' = [pc EXCEPT ![t] = to]
  /\ frame' = [frame EXCEPT ![Scratch(t)] = f]
  /\ UNCHANGED <<params, density, larprop, sce, calc, call, hist, args, ret>>

Enter(t) ==
  /\ pc[t] = "idle"
  /\ \E edep \in SeqDeposits, efield \in SeqEfields :
       /\ args' = [args EXCEPT ![t] = [efield |-> efield, edep |-> edep]]
       /\ frame' = [frame EXCEPT ![Scratch(t)] = S61(calc, NoFrame, edep)]
  /\ pc' = [pc EXCEPT ![t] = "l64"]
  /\ UNCHANGED <<params, density, larprop, sce, calc, call, hist, ret>>

Line64(t) ==
  /\ pc[t] = "l64"
  /\ Advance(t, "l66", S64(frame[Scratch(t)], args[t].edep))

Line66(t) ==
  /\ pc[t] = "l66"
  /\ Advance(t, "l69", S66(sce, frame[Scratch(t)], args[t].efield, args[t].edep))

Line69(t) ==
  /\ pc[t] = "l69"
  /\ Advance(t, "l83", S69(frame[Scratch(t)]))

Line83(t) ==
  /\ pc[t] = "l83"
  /\ Advance(t, "l87", S83(calc, frame[Scratch(t)]))

Line87(t) ==
  /\ pc[t] = "l87"
  /\ Advance(t, "l90", S87(calc, frame[Scratch(t)]))

Line90(t) ==
  /\ pc[t] = "l90"
  /\ Advance(t, "l93", S90(calc, frame[Scratch(t)]))

Line93(t) ==
  /\ pc[t] = "l93"
  /\ Advance(t, "l100", S93(calc, frame[Scratch(t)]))

Return(t) ==
  /\ pc[t] = "l100"
  /\ ret' = [ret EXCEPT ![t] = S100(larprop, frame[Scratch(t)], args[t].edep)]
  /\ calc' = MembersAfter(calc, args[t].edep)
  /\ pc' = [pc EXCEPT ![t] = "done"]
  /\ UNCHANGED <<params, density, larprop, sce, call, hist, args, frame>>

NextThreads ==
  \E t \in Threads :
    \/ Enter(t)
    \/ Line64(t)
    \/ Line66(t)
    \/ Line69(t)
    \/ Line83(t)
    \/ Line87(t)
    \/ Line90(t)
    \/ Line93(t)
    \/ Return(t)

SpecThreads == InitCalls /\ [][NextThreads]_vars

(***************************************************************************)
(* Properties.  Called: the state holds a finished call; the members,      *)
(* the arguments and the locals of that call are calc and call.            *)
(***************************************************************************)
Called == call.op = "CalcIonAndScint"

\* The same double: equal as C++ compares them, or both NaN.
SameValue(a, b) == a = b \/ FEq(a, b)

ZeroStep == Called /\ IsZero(call.edep.StepLength)

\* The LArQL term of the call, from its own dE/dx and field.
LarqlTerm == FMul(EscapingEFraction(calc, call.dEdx), FieldCorrection(calc, call.EFieldStep, call.dEdx))

\* C1 as stated: with the Modified-Box model a deposit of step length 0 has
\* recomb == 0 and electrons == 0, whatever the other constants, the LArQL
\* flag included.
C1_AsStated ==
  (ZeroStep /\ calc.fUseModBoxRecomb)
    => (IsZero(call.recomb) /\ IsZero(call.result.numElectrons))

\* C1 amended: with the Modified-Box model a deposit of step length 0 gets
\* recomb == 0 from the model branch for every energy and field; with the
\* LArQL flag off that is the final recomb and electrons == 0; with the
\* flag on the final recomb is 0 plus the LArQL term, which is not 0 here.
C1_ModBoxZeroStep ==
  (ZeroStep /\ calc.fUseModBoxRecomb)
    => /\ call.recomb0 = Zero(1)
       /\ ~calc.fUseModLarqlRecomb
            => (call.recomb = Zero(1) /\ IsZero(call.result.numElectrons))
       /\ calc.fUseModLarqlRecomb
            => (call.recomb = FAdd(Zero(1), LarqlTerm) /\ ~IsZero(call.recomb))

C1_Witness ==
  /\ ZeroStep
  /\ calc.fUseModBoxRecomb
  /\ ~calc.fUseModLarqlRecomb
  /\ call.edep.Energy = FromInt(5)
  /\ FGt(call.efield, Zero(1))

\* The call's deposit with energy and step length both s: dE/dx == 1.
UnitDeposit(s) == [call.edep EXCEPT !.Energy = s, !.StepLength = s]

UnitSteps == {Lit(1, 2), One}

BelowFloor ==
  /\ Called
  /\ FGt(call.edep.StepLength, Zero(1))
  /\ FLt(FDiv(call.edep.Energy, call.edep.StepLength), One)

\* C2: a deposit with stepLength > 0 and energy/stepLength < 1 gets the
\* recombination (model branch and LArQL term alike) of a deposit with
\* energy/stepLength == 1 under the same field and constants: the clamp
\* comes before every use and every formula sees dE/dx == 1, also when the
\* step length is no single-precision value and line 63 narrows it.
C2_DEdxFloor ==
  BelowFloor
    => \A unit \in {Trace(calc, larprop, sce, call.efield, UnitDeposit(s)) :
                       s \in UnitSteps} :
          /\ unit.dEdx0 = One
          /\ call.dEdx = One
          /\ call.recomb0 = unit.recomb0
          /\ call.recomb = unit.recomb
          /\ call.recomb0 = Recombination(calc, call.ds, One, call.EFieldStep)
          /\ call.recomb = LarqlCorrect(calc, call.recomb0, call.EFieldStep, One)

C2_Witness ==
  /\ BelowFloor
  /\ call.edep.StepLength = Lit(129, 128)
  /\ call.ds = One
  /\ call.edep.Energy = One
  /\ calc.fUseModBoxRecomb
  /\ calc.fUseModLarqlRecomb
  /\ FGt(call.edep.Energy, Zero(1))
  /\ FGt(call.efield, Zero(1))
  /\ IsFin(call.recomb) /\ ~IsZero(call.recomb)

\* C3: the LArQL flag changes the additive term and nothing else: the call
\* with the flag off is the call with the flag on and the term replaced by
\* 0; energy, yield ratio, clamped dE/dx, field and model recombination are
\* the same in both.
C3_LarqlToggle ==
  Called
    => \A on \in {Trace([calc EXCEPT !.fUseModLarqlRecomb = TRUE], larprop, sce,
                       call.efield, call.edep)},
          off \in {Trace([calc EXCEPT !.fUseModLarqlRecomb = FALSE], larprop, sce,
                        call.efield, call.edep)},
          base \in {FAdd(call.recomb0, Zero(1))} :
          /\ call = (IF calc.fUseModLarqlRecomb THEN on ELSE off)
          /\ on.result.energy = off.result.energy
          /\ on.result.scintillationYieldRatio = off.result.scintillationYieldRatio
          /\ on.dEdx = off.dEdx
          /\ on.EFieldStep = off.EFieldStep
          /\ on.Nq = off.Nq
          /\ on.recomb0 = off.recomb0
          /\ on.recomb = FAdd(on.recomb0,
                              FMul(EscapingEFraction(calc, on.dEdx),
                                   FieldCorrection(calc, on.EFieldStep, on.dEdx)))
          /\ SameValue(off.recomb, base)
          /\ SameValue(off.result.numElectrons,
                       NumElectrons(calc, call.edep.Energy, base))
          /\ SameValue(off.result.numPhotons,
                       NumPhotons(calc, on.Nq,
                                  NumElectrons(calc, call.edep.Energy, base)))

C3_Witness ==
  /\ Called
  /\ calc.fUseModLarqlRecomb
  /\ IsFin(call.recomb0)
  /\ FGt(call.recomb, call.recomb0)
  /\ FGt(call.edep.Energy, Zero(1))

\* The yield ratio each particle code gets, by the table of the claim.
RatioByCode(code) ==
  IF ~larprop.ScintByParticleType THEN larprop.ScintYieldRatio
  ELSE IF code = 2212 THEN larprop.ProtonScintYieldRatio
  ELSE IF code = 13 \/ code = -13 THEN larprop.MuonScintYieldRatio
  ELSE IF code = 211 \/ code = -211 THEN larprop.PionScintYieldRatio
  ELSE IF code = 321 \/ code = -321 THEN larprop.KaonScintYieldRatio
  ELSE IF code = 1000020040 THEN larprop.AlphaScintYieldRatio
  ELSE larprop.ElectronScintYieldRatio

\* C4: the yield ratio attached to a result is the global ratio with the
\* per-particle toggle off, and with it on the ratio of the deposit's
\* particle code, the electron ratio for every code not listed; whatever
\* the energy, step length, field and recombination of the call.
C4_YieldRatio ==
  Called => call.result.scintillationYieldRatio = RatioByCode(call.edep.PdgCode)

C4_Witness ==
  /\ Called
  /\ larprop.ScintByParticleType
  /\ call.edep.PdgCode = 999999
  /\ call.result.scintillationYieldRatio = larprop.ElectronScintYieldRatio
  /\ call.result.scintillationYieldRatio # larprop.ScintYieldRatio

SameArgs(a, b) == a.efield = b.efield /\ a.edep = b.edep

\* C5: after any sequence of calls every stored constant still has its
\* construction-time value, and calls with the same deposit and field
\* returned the same result whatever calls came between them.
C5_CallsLeaveNoTrace ==
  /\ calc = Construct(params, density, larprop)
  /\ \A i \in DOMAIN hist, j \in DOMAIN hist :
       SameArgs(hist[i], hist[j]) => hist[i].result = hist[j].result

C5_Witness ==
  /\ Len(hist) >= 3
  /\ SameArgs(hist[1], hist[3])
  /\ ~SameArgs(hist[1], hist[2])
  /\ hist[1].result # hist[2].result

\* C6: whatever the interleaving, a thread that has returned holds the
\* result its call gives when run alone, and the members are those the
\* constructor stored.
C6_ThreadsAgreeWithSequential ==
  /\ calc = Construct(params, density, larprop)
  /\ \A t \in Threads :
       pc[t] = "done"
         => ret[t] = CalcIonAndScint(calc, larprop, sce, args[t].efield, args[t].edep)

C6_Witness ==
  /\ \A t \in Threads : pc[t] = "done"
  /\ args[1].edep # args[2].edep
  /\ ret[1] # ret[2]

\* C7: photons == (Nq - electrons) * scintPreScale with Nq == energy / Wph
\* and electrons == (energy / Wion) * recomb, nothing clamped; so with
\* scintPreScale > 0 the photons are negative exactly when electrons > Nq,
\* and the negative value is what the call returns.
C7_Anticorrelation ==
  Called
    => /\ calc.fWph = FMul(Lit(39, 2), Lit(1, 1000000))
       /\ call.Nq = FDiv(call.edep.Energy, calc.fWph)
       /\ call.result.numElectrons
            = FMul(FDiv(call.edep.Energy, calc.fWion), call.recomb)
       /\ call.result.numPhotons
            = FMul(FSub(call.Nq, call.result.numElectrons), calc.fScintPreScale)
       /\ FGt(calc.fScintPreScale, Zero(1))
            => (FLt(call.result.numPhotons, Zero(1))
                  <=> FGt(call.result.numElectrons, call.Nq))

C7_Witness ==
  /\ Called
  /\ FGt(calc.fScintPreScale, Zero(1))
  /\ IsFin(call.result.numPhotons)
  /\ FLt(call.result.numPhotons, Zero(1))
  /\ FGt(call.result.numElectrons, call.Nq)

BirksZeroField ==
  /\ Called
  /\ ~calc.fUseModBoxRecomb
  /\ ~sce.EnableSimEfieldSCE
  /\ IsZero(call.efield)

\* C8 as stated: in the Birks branch with distortion disabled and an
\* ambient field of 0 the recombination is infinite or NaN.
C8_AsStated == BirksZeroField => (IsInf(call.recomb) \/ IsNaN(call.recomb))

\* C8 amended: in the Birks branch with distortion disabled and an ambient
\* field of 0, the division by the field is made unguarded; for k_recomb > 0
\* its quotient is +infinity, so the Birks recombination A / (1 + inf) is 0
\* and the call returns finite values; only for k_recomb == 0 is the
\* quotient 0/0 and the recombination NaN.  Either way the call returns.
C8_BirksZeroField ==
  BirksZeroField
    => \A quot \in {FDiv(FMul(call.dEdx, calc.fRecombk), call.EFieldStep)} :
         /\ IsZero(call.EFieldStep)
         /\ call.recomb0 = FDiv(calc.fRecombA, FAdd(One, quot))
         /\ FGt(calc.fRecombk, Zero(1))
              => /\ quot = Inf(1)
                 /\ call.recomb0 = Zero(1)
                 /\ IsFin(call.recomb)
                 /\ IsFin(call.result.numElectrons)
                 /\ IsFin(call.result.numPhotons)
         /\ IsZero(calc.fRecombk)
              => /\ IsNaN(quot)
                 /\ IsNaN(call.recomb)
                 /\ IsNaN(call.result.numElectrons)
         /\ ~IsInf(call.recomb)

C8_Witness ==
  /\ BirksZeroField
  /\ FGt(calc.fRecombk, Zero(1))
  /\ FGt(call.edep.Energy, Zero(1))
  /\ call.recomb = Zero(1)
  /\ call.result.numElectrons = Zero(1)

\* C9: with distortion disabled the field of the step is the ambient
\* baseline, no offset is looked up, and the call does not depend on the
\* deposit's mid point; with it enabled the offsets are looked up at the mid
\* point and every recombination formula uses
\* baseline * sqrt((1+dx)^2 + dy^2 + dz^2), which for zero offsets is the
\* baseline.
C9_EffectiveField ==
  Called
    => /\ ~sce.EnableSimEfieldSCE
            => /\ call.EFieldStep = call.efield
               /\ call.lookups = {}
               /\ \A mp \in MidPoints :
                    \A other \in {Trace(calc, larprop, sce, call.efield,
                                        [call.edep EXCEPT !.MidPoint = mp])} :
                      /\ other.result = call.result
                      /\ other.recomb = call.recomb
       /\ sce.EnableSimEfieldSCE
            => \A off \in {GetEfieldOffsets(call.edep.MidPoint)} :
                 \A E \in {FMul(call.efield,
                                FHypot(FAdd(One, off.X), off.Y, off.Z))} :
                   /\ call.lookups = {call.edep.MidPoint}
                   /\ call.EFieldStep = E
                   /\ call.recomb0 = Recombination(calc, call.ds, call.dEdx, E)
                   /\ call.recomb = LarqlCorrect(calc, call.recomb0, E, call.dEdx)
                   /\ (IsZero(off.X) /\ IsZero(off.Y) /\ IsZero(off.Z))
                        => call.EFieldStep = call.efield

C9_Witness ==
  /\ Called
  /\ sce.EnableSimEfieldSCE
  /\ call.edep.MidPoint = "P1"
  /\ FGt(call.EFieldStep, call.efield)
  /\ FGt(call.edep.StepLength, Zero(1))
  /\ IsFin(call.recomb) /\ ~IsZero(call.recomb)

NoStep == Called /\ FLe(call.edep.StepLength, Zero(1))

\* The Birks value at dE/dx == 1 for the call's field.
BirksAtFloor == FDiv(calc.fRecombA, FAdd(One, FDiv(calc.fRecombk, call.EFieldStep)))

\* C10 as stated: a step length <= 0 is never divided by; in the Birks
\* branch the deposit gets the nonzero recombination A / (1 + k / E).
C10_AsStated ==
  (NoStep /\ ~calc.fUseModBoxRecomb)
    => (call.dEdx0 = Zero(1) /\ call.recomb0 = BirksAtFloor /\ ~IsZero(call.recomb0))

\* C10 amended: a step length <= 0 is never divided by: dE/dx is set to 0
\* and then clamped to 1.  In the Birks branch the deposit gets the
\* recombination A / (1 + k / E), the dE/dx == 1 value, whatever its energy;
\* it is nonzero when the field E is not 0 (at E == 0 it is 0, or NaN for
\* k == 0), and the electrons are (energy / Wion) times the recombination.
\* The Modified-Box branch gives recomb 0 for the same deposit.  A negative
\* step length gives what a zero one gives, in both branches.
C10_NoStepLength ==
  NoStep
    => /\ call.dEdx0 = Zero(1)
       /\ call.dEdx = One
       /\ ~calc.fUseModBoxRecomb
            => /\ call.recomb0 = BirksAtFloor
               /\ FGt(call.EFieldStep, Zero(1))
                    => (IsFin(call.recomb0) /\ ~IsZero(call.recomb0))
               /\ \A en \in Energies :
                    \A other \in {Trace(calc, larprop, sce, call.efield,
                                        [call.edep EXCEPT !.Energy = en])} :
                      /\ other.recomb0 = call.recomb0
                      /\ other.recomb = call.recomb
                      /\ other.result.numElectrons
                           = FMul(FDiv(en, calc.fWion), call.recomb)
       /\ calc.fUseModBoxRecomb => call.recomb0 = Zero(1)
       /\ \A zero \in {Trace(calc, larprop, sce, call.efield,
                             [call.edep EXCEPT !.StepLength = Zero(1)])} :
            /\ zero.result = call.result
            /\ zero.recomb0 = call.recomb0
            /\ zero.recomb = call.recomb
            /\ zero.dEdx = call.dEdx

C10_Witness ==
  /\ NoStep
  /\ call.edep.StepLength = FromInt(-1)
  /\ ~calc.fUseModBoxRecomb
  /\ FGt(call.EFieldStep, Zero(1))
  /\ FGt(call.edep.Energy, Zero(1))
  /\ FGt(call.result.numElectrons, Zero(1))

=============================================================================
